---- MODULE Spec2Model ----
(***************************************************************************)
(* Model of AIComplianceSEOAnalyzer (src/ai_compliance_analyzer.py): the   *)
(* bounded breadth-first crawl, the six category scorers and the report    *)
(* aggregation, as one state machine over the analyzer object's fields and *)
(* the locals of the analyze_website call in progress.                     *)
(*                                                                         *)
(* Numbers.  The scorers compare Python floats with literals.  Every such  *)
(* comparison is between a quotient of two small integers and a decimal    *)
(* literal, and is modelled by the equivalent integer inequality (c/n >    *)
(* 0.8 as 10*c > 8*n).  Percentages are kept in thousandths of a percent   *)
(* (Milli) and overall_score in tenths of a percent.                       *)
(***************************************************************************)
EXTENDS Integers, Sequences, FiniteSets, Bags, TLC

VARIABLES
    pc,               \* "idle": no call in progress; "crawl": inside the crawl loop
    requested,        \* sum of the max_pages arguments of the calls made so far
    url,              \* analyze_website's url argument = crawl_website's base_url
    max_pages,        \* analyze_website's max_pages argument
    pages_data,       \* crawl_website local: the result list
    visited,          \* crawl_website local: set of visited URLs
    to_visit,         \* crawl_website local: the frontier queue
    compliance_score, \* self.compliance_score
    detailed_results, \* self.detailed_results, an insertion-ordered dict
    report,           \* value returned by the last analyze_website call
    fetched,          \* history: bag of the URLs handed to session.get by this crawl
    last_fetch,       \* history: outcome of the latest loop iteration of this crawl
    mobile_fetch      \* history: outcome of the mobile scorer's own fetch in the last call

vars == <<pc, requested, url, max_pages, pages_data, visited, to_visit,
          compliance_score, detailed_results, report, fetched, last_fetch,
          mobile_fetch>>

-----------------------------------------------------------------------------
(* Bounds of the model.                                                    *)

\* the max_pages arguments of a sequence of analyze_website calls made on the
\* one analyzer object add up to at most MaxBudget
MaxBudget == 2
\* largest max_pages argument of a call made on a fresh analyzer
MaxPagesArg == 3

-----------------------------------------------------------------------------
(* URLs.  A URL or an href is a string, modelled as the sequence of its    *)
(* lexical tokens: "https://a.com/item.php?id=1" is                        *)
(* <<"https", ":", "//", "a.com", "/", "item", ".php", "?", "id", "=", "1">>. *)
(* The empty string is <<>>.                                               *)

HomeUrl   == <<"https", ":", "//", "a.com", "/">>
ItemUrl   == <<"http", ":", "//", "a.com", "/", "item", ".php", "?", "id", "=", "1", "&", "x", "=", "2">>
QueryUrl  == <<"http", ":", "//", "a.com", "/", "item", "?", "id", "=", "1", "&", "x", "=", "2">>

\* the url arguments analyze_website is called with
StartUrls == {HomeUrl, ItemUrl, QueryUrl}

\* position of the first token of s at or after i that is in S, else Len(s) + 1
FindFrom(s, i, S) ==
    IF \E j \in i..Len(s) : s[j] \in S
    THEN CHOOSE j \in i..Len(s) : s[j] \in S /\ \A k \in i..(j - 1) : s[k] \notin S
    ELSE Len(s) + 1

\* position of the last token of s that is in S, else 0
FindLast(s, S) ==
    IF \E j \in 1..Len(s) : s[j] \in S
    THEN CHOOSE j \in 1..Len(s) : s[j] \in S /\ \A k \in (j + 1)..Len(s) : s[k] \notin S
    ELSE 0

\* where the part of u after its scheme starts: 3 after "scheme:", else 1
AfterScheme(u) ==
    IF Len(u) >= 2 /\ u[2] = ":" /\ u[1] \notin {"/", "//", "?", "#"} THEN 3 ELSE 1

\* where the part of u after its netloc starts
AfterNetloc(u) ==
    IF Len(u) >= AfterScheme(u) /\ u[AfterScheme(u)] = "//"
    THEN FindFrom(u, AfterScheme(u) + 1, {"/", "?", "#"})
    ELSE AfterScheme(u)

\* urllib.parse.urlparse: scheme, netloc, path, query, fragment.  The netloc
\* ends at the first "/", "?" or "#", the fragment starts at the first "#" and
\* the query at the first "?" before it.
urlparse(u) ==
    [scheme   |-> IF AfterScheme(u) = 3 THEN u[1] ELSE "",
     netloc   |-> SubSeq(u, AfterScheme(u) + 1, AfterNetloc(u) - 1),
     path     |-> SubSeq(u, AfterNetloc(u), FindFrom(u, AfterNetloc(u), {"?", "#"}) - 1),
     query    |-> SubSeq(u, FindFrom(u, AfterNetloc(u), {"?", "#"}) + 1,
                         FindFrom(u, AfterNetloc(u), {"#"}) - 1),
     fragment |-> SubSeq(u, FindFrom(u, AfterNetloc(u), {"#"}) + 1, Len(u))]

\* urllib.parse.urlunparse for a URL with a scheme
urlunparse(scheme, netloc, path, query, fragment) ==
    <<scheme, ":">>
    \o (IF netloc # <<>> THEN <<"//">> \o netloc ELSE <<>>)
    \o (IF netloc # <<>> /\ path # <<>> /\ path[1] # "/" THEN <<"/">> ELSE <<>>)
    \o path
    \o (IF query # <<>> THEN <<"?">> \o query ELSE <<>>)
    \o (IF fragment # <<>> THEN <<"#">> \o fragment ELSE <<>>)

\* urljoin on the parsed base b and the parsed href h
JoinParsed(base, href, b, h) ==
    LET scheme == IF h.scheme # "" THEN h.scheme ELSE b.scheme
    IN  IF href = <<>> THEN base
        ELSE IF scheme # b.scheme \/ scheme \notin {"http", "https"} THEN href
        ELSE IF h.netloc # <<>>
             THEN urlunparse(scheme, h.netloc, h.path, h.query, h.fragment)
        ELSE IF h.path = <<>>
             THEN urlunparse(scheme, b.netloc, b.path,
                             IF h.query # <<>> THEN h.query ELSE b.query, h.fragment)
        ELSE IF h.path[1] = "/"
             THEN urlunparse(scheme, b.netloc, h.path, h.query, h.fragment)
        ELSE urlunparse(scheme, b.netloc,
                        SubSeq(b.path, 1, FindLast(b.path, {"/"})) \o h.path,
                        h.query, h.fragment)

\* urllib.parse.urljoin(base, href) for a base with a scheme; "." and ".."
\* segments are not resolved (no href of the model has any)
urljoin(base, href) ==
    CHOOSE joined \in {JoinParsed(base, href, b, h) :
                          b \in {urlparse(base)}, h \in {urlparse(href)}} : TRUE

\* is_internal_link comparing the scheme where it should compare the netloc
is_internal_link_scheme(base_url, link_url) ==
    LET link_domain == urlparse(link_url).netloc
    IN  urlparse(base_url).scheme = urlparse(link_url).scheme \/ link_domain = <<>>

is_internal_link(base_url, link_url) ==
    LET base_domain == urlparse(base_url).netloc
        link_domain == urlparse(link_url).netloc
    IN  base_domain = link_domain \/ link_domain = <<>>

\* hrefs found on the site's pages
AboutHref  == <<"/", "about">>
ItemHref   == <<"/", "item", ".php", "?", "id", "=", "1", "&", "x", "=", "2">>
RootHref   == <<"/">>
OtherHref  == <<"https", ":", "//", "b.com", "/">>
MailtoHref == <<"mailto", ":", "x@a.com">>
EmptyHref  == <<>>

-----------------------------------------------------------------------------
(* Documents and responses the site can serve.                             *)

\* what the crawler and the scorers read from a parsed document (soup):
\*   words       len(soup.get_text().split())
\*   headings    number of h1..h6 elements;  h123: number of h1..h3 elements
\*   paragraphs  number of p elements
\*   viewport    "none": no meta viewport; "device": its content has
\*               width=device-width; "fixed": present without it
\*   json_ld, microdata, semantic_elements, author_indicators, author_meta,
\*   date_patterns, time_tags   sizes of the find_all results of those names
\*   title_len   len(title.text.strip()), -1 without a title element
\*   meta_desc   a meta description is present
\*   question, conversational, credibility   the text matches the question
\*               pattern / has a conversational indicator / a credibility signal
\*   hrefs       the href values of find_all('a', href=True), in document order
RichDoc ==
    [words |-> 1000, headings |-> 6, h123 |-> 3, paragraphs |-> 6,
     viewport |-> "device", json_ld |-> 1, microdata |-> 0, semantic_elements |-> 3,
     title_len |-> 24, meta_desc |-> TRUE, question |-> TRUE, conversational |-> TRUE,
     author_indicators |-> 0, author_meta |-> 1, credibility |-> TRUE,
     date_patterns |-> 0, time_tags |-> 1,
     hrefs |-> <<AboutHref, AboutHref, OtherHref, MailtoHref, EmptyHref, ItemHref>>]

MidDoc ==
    [words |-> 999, headings |-> 3, h123 |-> 2, paragraphs |-> 5,
     viewport |-> "fixed", json_ld |-> 0, microdata |-> 0, semantic_elements |-> 3,
     title_len |-> 12, meta_desc |-> TRUE, question |-> FALSE, conversational |-> TRUE,
     author_indicators |-> 0, author_meta |-> 0, credibility |-> TRUE,
     date_patterns |-> 0, time_tags |-> 0,
     hrefs |-> <<ItemHref, AboutHref, RootHref>>]

PoorDoc ==
    [words |-> 50, headings |-> 0, h123 |-> 0, paragraphs |-> 1,
     viewport |-> "none", json_ld |-> 0, microdata |-> 0, semantic_elements |-> 0,
     title_len |-> -1, meta_desc |-> FALSE, question |-> FALSE, conversational |-> FALSE,
     author_indicators |-> 0, author_meta |-> 0, credibility |-> FALSE,
     date_patterns |-> 0, time_tags |-> 0,
     hrefs |-> <<RootHref>>]

\* BeautifulSoup(content, 'html.parser') on the bodies the site serves
BeautifulSoup(content) ==
    IF content = "rich" THEN RichDoc
    ELSE IF content = "mid" THEN MidDoc
    ELSE PoorDoc

\* a requests.Response: status, body, elapsed time in milliseconds
Response(s, c, e) == [status_code |-> s, content |-> c, elapsed |-> e]

Responses ==
    { Response(200, "rich", 500), Response(200, "mid", 1500),
      Response(200, "poor", 2500), Response(404, "poor", 500) }

\* session.get raises for a URL requests has no connection adapter for
Fetchable(u) == urlparse(u).scheme \in {"http", "https"} /\ urlparse(u).netloc # <<>>

-----------------------------------------------------------------------------
(* The analyzer object and the six scorers.  A scorer maps the object's    *)
(* fields (self) to the outcome of the call: the fields after it, and      *)
(* whether it raised.  The only exception a scorer can raise on a list of  *)
(* parsed pages is the ZeroDivisionError of a division by len(pages_data). *)

Self(score, results) == [compliance_score |-> score, detailed_results |-> results]
Returned(self) == [raised |-> FALSE, self |-> self]
Raised(self)   == [raised |-> TRUE, self |-> self]

\* the statement after a call inside the try block: skipped when the call
\* raised, else run on the fields the call left
Then(r, F(_)) ==
    CHOOSE out \in {IF v.raised THEN v ELSE F(v.self) : v \in {r}} : TRUE

\* page['soup']: the document parsed from the page's body when it was crawled
Soup(page) == BeautifulSoup(page.content)

\* d[key] = value on an insertion-ordered dict, kept as a sequence of entries
DictSet(d, key, value) ==
    IF \E i \in DOMAIN d : d[i].key = key
    THEN [i \in DOMAIN d |-> IF d[i].key = key THEN [key |-> key, value |-> value] ELSE d[i]]
    ELSE Append(d, [key |-> key, value |-> value])

RECURSIVE SumSeq(_)
SumSeq(s) == IF s = <<>> THEN 0 ELSE Head(s) + SumSeq(Tail(s))

\* number of pages for which P holds
Count(pages, P(_)) == Cardinality({i \in DOMAIN pages : P(pages[i])})

\* Python's round(a / b) and round(a / b, 1) * 10 for a >= 0, b > 0: to
\* nearest, ties to even.  The float quotient lies on the same side of every
\* tie as the exact one for b < 20.
RoundHalfEven(a, b) ==
    LET q == a \div b
        r == a % b
    IN  IF 2 * r > b THEN q + 1
        ELSE IF 2 * r < b THEN q
        ELSE IF q % 2 = 0 THEN q ELSE q + 1

\* analyze_content_quality with every division guarded the way avg_words is:
\* on an empty page list it records the floor scores instead of raising
analyze_content_quality_guarded(self, pages) ==
    LET n == Len(pages)
        total_words      == SumSeq([i \in DOMAIN pages |-> Soup(pages[i]).words])
        total_headings   == SumSeq([i \in DOMAIN pages |-> Soup(pages[i]).headings])
        total_paragraphs == SumSeq([i \in DOMAIN pages |-> Soup(pages[i]).paragraphs])
        content_depth ==
            IF n # 0 /\ total_words >= 1000 * n THEN 25
            ELSE IF n # 0 /\ total_words >= 500 * n THEN 20
            ELSE IF n # 0 /\ total_words >= 300 * n THEN 15
            ELSE 10
        semantic_richness ==
            IF n # 0 /\ total_headings >= 5 * n THEN 20
            ELSE IF n # 0 /\ total_headings >= 3 * n THEN 15
            ELSE 10
        readability == IF n # 0 /\ total_paragraphs >= 5 * n THEN 15 ELSE 10
        details == [readability |-> readability, semantic_richness |-> semantic_richness,
                    content_depth |-> content_depth, keyword_optimization |-> 0]
        quality_score == details.readability + details.semantic_richness
                         + details.content_depth + details.keyword_optimization
    IN  Returned(Self(self.compliance_score + quality_score,
            DictSet(self.detailed_results, "content_quality",
                [score |-> quality_score, max_score |-> 80, details |-> details,
                 avg_words_per_page |-> IF n = 0 THEN 0 ELSE RoundHalfEven(total_words, n),
                 avg_headings_per_page |->
                     IF n = 0 THEN 0 ELSE RoundHalfEven(10 * total_headings, n)])))

\* analyze_content_quality with a single content_depth threshold at 1000 words
analyze_content_quality_oneband(self, pages) ==
    LET n == Len(pages)
        total_words      == SumSeq([i \in DOMAIN pages |-> Soup(pages[i]).words])
        total_headings   == SumSeq([i \in DOMAIN pages |-> Soup(pages[i]).headings])
        total_paragraphs == SumSeq([i \in DOMAIN pages |-> Soup(pages[i]).paragraphs])
        content_depth == IF n # 0 /\ total_words >= 1000 * n THEN 25 ELSE 10
        semantic_richness ==
            IF total_headings >= 5 * n THEN 20
            ELSE IF total_headings >= 3 * n THEN 15
            ELSE 10
        readability == IF total_paragraphs >= 5 * n THEN 15 ELSE 10
        details == [readability |-> readability, semantic_richness |-> semantic_richness,
                    content_depth |-> content_depth, keyword_optimization |-> 0]
        quality_score == details.readability + details.semantic_richness
                         + details.content_depth + details.keyword_optimization
    IN  IF n = 0 THEN Raised(self)
        ELSE Returned(Self(self.compliance_score + quality_score,
                 DictSet(self.detailed_results, "content_quality",
                     [score |-> quality_score, max_score |-> 80, details |-> details,
                      avg_words_per_page |-> RoundHalfEven(total_words, n),
                      avg_headings_per_page |-> RoundHalfEven(10 * total_headings, n)])))

analyze_content_quality(self, pages) ==
    LET n == Len(pages)
        total_words      == SumSeq([i \in DOMAIN pages |-> Soup(pages[i]).words])
        total_headings   == SumSeq([i \in DOMAIN pages |-> Soup(pages[i]).headings])
        total_paragraphs == SumSeq([i \in DOMAIN pages |-> Soup(pages[i]).paragraphs])
        \* avg_words = total_words / len(pages_data) if pages_data else 0
        content_depth ==
            IF n # 0 /\ total_words >= 1000 * n THEN 25
            ELSE IF n # 0 /\ total_words >= 500 * n THEN 20
            ELSE IF n # 0 /\ total_words >= 300 * n THEN 15
            ELSE 10
        semantic_richness ==
            IF total_headings >= 5 * n THEN 20
            ELSE IF total_headings >= 3 * n THEN 15
            ELSE 10
        readability == IF total_paragraphs >= 5 * n THEN 15 ELSE 10
        details == [readability |-> readability, semantic_richness |-> semantic_richness,
                    content_depth |-> content_depth, keyword_optimization |-> 0]
        quality_score == details.readability + details.semantic_richness
                         + details.content_depth + details.keyword_optimization
    IN  IF n = 0 THEN Raised(self)   \* total_headings / len(pages_data)
        ELSE Returned(Self(self.compliance_score + quality_score,
                 DictSet(self.detailed_results, "content_quality",
                     [score |-> quality_score, max_score |-> 80, details |-> details,
                      avg_words_per_page |-> RoundHalfEven(total_words, n),
                      avg_headings_per_page |-> RoundHalfEven(10 * total_headings, n)])))

unfriendly_extensions ==
    {".php", ".html", ".htm", ".jsp", ".asp", ".aspx", ".cgi", ".pl", ".py", ".rb",
     ".do", ".action"}

\* the test of the clean-URL loop on one page
IsCleanUrl(page) ==
    LET url_path == urlparse(page.url).path
    IN  /\ ~ \E i \in DOMAIN url_path : url_path[i] \in {"?", "&", "="}
        /\ ~ (url_path # <<>> /\ url_path[Len(url_path)] \in unfriendly_extensions)

HasViewport(page) == Soup(page).viewport # "none"

analyze_technical_performance(self, u, pages) ==
    LET n == Len(pages)
        \* url.startswith('https://')
        ssl_security == IF Len(u) >= 3 /\ SubSeq(u, 1, 3) = <<"https", ":", "//">>
                        THEN 10 ELSE 0
        clean_url_count == Count(pages, IsCleanUrl)
        clean_urls ==
            IF 10 * clean_url_count > 8 * n THEN 10
            ELSE IF 10 * clean_url_count > 5 * n THEN 7
            ELSE 3
        mobile_friendly_count == Count(pages, HasViewport)
        mobile_friendly ==
            IF 10 * mobile_friendly_count > 8 * n THEN 15
            ELSE IF 10 * mobile_friendly_count > 5 * n THEN 10
            ELSE 5
        \* every requests.Response has an elapsed attribute
        response_times == [i \in DOMAIN pages |-> pages[i].response.elapsed]
        page_speed ==
            IF response_times = <<>> THEN 0
            ELSE IF SumSeq(response_times) < 1000 * Len(response_times) THEN 15
            ELSE IF SumSeq(response_times) < 2000 * Len(response_times) THEN 10
            ELSE 5
        details == [ssl_security |-> ssl_security, page_speed |-> page_speed,
                    mobile_friendly |-> mobile_friendly, clean_urls |-> clean_urls]
        tech_score == details.ssl_security + details.page_speed
                      + details.mobile_friendly + details.clean_urls
    IN  IF n = 0 THEN Raised(self)   \* clean_url_count / len(pages_data)
        ELSE Returned(Self(self.compliance_score + tech_score,
                 DictSet(self.detailed_results, "technical_performance",
                     [score |-> tech_score, max_score |-> 50, details |-> details])))

HasStructuredData(page) == Soup(page).json_ld > 0 \/ Soup(page).microdata > 0
HasSemanticHtml(page)   == Soup(page).semantic_elements >= 3
HasMetaOptimized(page)  == Soup(page).title_len >= 0 /\ Soup(page).meta_desc
                           /\ Soup(page).title_len > 10

analyze_semantic_structure(self, pages) ==
    LET n == Len(pages)
        structured_data_count == Count(pages, HasStructuredData)
        semantic_html_count   == Count(pages, HasSemanticHtml)
        meta_optimized_count  == Count(pages, HasMetaOptimized)
        structured_data ==
            IF 10 * structured_data_count > 5 * n THEN 15
            ELSE IF structured_data_count > 0 THEN 10
            ELSE 0
        semantic_html ==
            IF 10 * semantic_html_count > 7 * n THEN 10
            ELSE IF 10 * semantic_html_count > 3 * n THEN 7
            ELSE 3
        meta_optimization ==
            IF 10 * meta_optimized_count > 8 * n THEN 10
            ELSE IF 10 * meta_optimized_count > 5 * n THEN 7
            ELSE 3
        details == [structured_data |-> structured_data, semantic_html |-> semantic_html,
                    meta_optimization |-> meta_optimization]
        semantic_score == details.structured_data + details.semantic_html
                          + details.meta_optimization
    IN  IF n = 0 THEN Raised(self)   \* structured_data_count / len(pages_data)
        ELSE Returned(Self(self.compliance_score + semantic_score,
                 DictSet(self.detailed_results, "semantic_structure",
                     [score |-> semantic_score, max_score |-> 35, details |-> details,
                      structured_data_pages |-> structured_data_count,
                      semantic_html_pages |-> semantic_html_count])))

HasQuestion(page)       == Soup(page).question
HasConversational(page) == Soup(page).conversational
HasClearContext(page)   == Soup(page).h123 >= 3

analyze_ai_readiness(self, pages) ==
    LET n == Len(pages)
        question_pages       == Count(pages, HasQuestion)
        conversational_pages == Count(pages, HasConversational)
        clear_context_pages  == Count(pages, HasClearContext)
        question_answering ==
            IF 10 * question_pages > 3 * n THEN 10
            ELSE IF question_pages > 0 THEN 7
            ELSE 0
        conversational_content ==
            IF 10 * conversational_pages > 5 * n THEN 10
            ELSE IF 10 * conversational_pages > 2 * n THEN 7
            ELSE 0
        contextual_clarity ==
            IF 10 * clear_context_pages > 7 * n THEN 10
            ELSE IF 10 * clear_context_pages > 4 * n THEN 7
            ELSE 0
        details == [conversational_content |-> conversational_content,
                    question_answering |-> question_answering,
                    contextual_clarity |-> contextual_clarity]
        ai_score == details.conversational_content + details.question_answering
                    + details.contextual_clarity
    IN  IF n = 0 THEN Raised(self)   \* question_pages / len(pages_data)
        ELSE Returned(Self(self.compliance_score + ai_score,
                 DictSet(self.detailed_results, "ai_readiness",
                     [score |-> ai_score, max_score |-> 30, details |-> details])))

HasAuthor(page)      == Soup(page).author_indicators > 0 \/ Soup(page).author_meta > 0
HasCredibility(page) == Soup(page).credibility
HasDate(page)        == Soup(page).date_patterns > 0 \/ Soup(page).time_tags > 0

analyze_eat_factors(self, pages) ==
    LET n == Len(pages)
        author_pages      == Count(pages, HasAuthor)
        credibility_pages == Count(pages, HasCredibility)
        date_pages        == Count(pages, HasDate)
        author_info ==
            IF 10 * author_pages > 5 * n THEN 7
            ELSE IF author_pages > 0 THEN 4
            ELSE 0
        credibility_signals ==
            IF 10 * credibility_pages > 3 * n THEN 8
            ELSE IF credibility_pages > 0 THEN 5
            ELSE 0
        content_freshness ==
            IF 10 * date_pages > 5 * n THEN 5
            ELSE IF date_pages > 0 THEN 3
            ELSE 0
        details == [author_info |-> author_info, credibility_signals |-> credibility_signals,
                    content_freshness |-> content_freshness]
        eat_score == details.author_info + details.credibility_signals
                     + details.content_freshness
    IN  IF n = 0 THEN Raised(self)   \* author_pages / len(pages_data)
        ELSE Returned(Self(self.compliance_score + eat_score,
                 DictSet(self.detailed_results, "eat_factors",
                     [score |-> eat_score, max_score |-> 20, details |-> details])))

\* the outcome of a session.get call: a response, or an exception
FetchError == [status_code |-> -1]

\* the try block of the mobile scorer: the details it leaves behind
\* the two mobile signals with 15 points for a responsive viewport
MobileDetails_generous(outcome) ==
    IF outcome = FetchError
    THEN [responsive_design |-> 0, core_web_vitals |-> 0]
    ELSE [responsive_design |-> IF BeautifulSoup(outcome.content).viewport = "device"
                                THEN 15 ELSE 0,
          core_web_vitals   |-> IF outcome.elapsed < 2000 THEN 5 ELSE 0]

MobileDetails(outcome) ==
    IF outcome = FetchError
    THEN [responsive_design |-> 0, core_web_vitals |-> 0]
    ELSE [responsive_design |-> IF BeautifulSoup(outcome.content).viewport = "device"
                                THEN 10 ELSE 0,
          core_web_vitals   |-> IF outcome.elapsed < 2000 THEN 5 ELSE 0]

\* analyze_mobile_ai_optimization without its try/except: a failed fetch raises
analyze_mobile_ai_optimization_unguarded(self, outcome) ==
    LET details == MobileDetails(outcome)
        mobile_score == details.responsive_design + details.core_web_vitals
    IN  IF outcome = FetchError THEN Raised(self)
        ELSE Returned(Self(self.compliance_score + mobile_score,
                 DictSet(self.detailed_results, "mobile_ai_optimization",
                     [score |-> mobile_score, max_score |-> 15, details |-> details])))

\* outcome: what session.get(url, timeout=10) does in this call
analyze_mobile_ai_optimization(self, outcome) ==
    LET details == MobileDetails(outcome)
        mobile_score == details.responsive_design + details.core_web_vitals
    IN  Returned(Self(self.compliance_score + mobile_score,
            DictSet(self.detailed_results, "mobile_ai_optimization",
                [score |-> mobile_score, max_score |-> 15, details |-> details])))

-----------------------------------------------------------------------------
(* Report aggregation.                                                     *)

\* (self.compliance_score / 250) * 100, in thousandths of a percent
PercentageScore(score) == (score * 100 * 1000) \div 250

\* the if/elif chain with strict comparisons
ComplianceLevel_strict(percentage_score) ==
    IF percentage_score > 80000
    THEN [compliance_level |-> "EXCELLENT",
          recommendation |-> "Your website is highly AI-compliant!"]
    ELSE IF percentage_score > 60000
    THEN [compliance_level |-> "GOOD",
          recommendation |-> "Good compliance with room for improvement."]
    ELSE IF percentage_score > 40000
    THEN [compliance_level |-> "MODERATE",
          recommendation |-> "Moderate compliance - several areas need attention."]
    ELSE [compliance_level |-> "POOR",
          recommendation |-> "Poor compliance - significant improvements needed."]

\* the if/elif chain on percentage_score (in thousandths of a percent)
ComplianceLevel(percentage_score) ==
    IF percentage_score >= 80000
    THEN [compliance_level |-> "EXCELLENT",
          recommendation |-> "Your website is highly AI-compliant!"]
    ELSE IF percentage_score >= 60000
    THEN [compliance_level |-> "GOOD",
          recommendation |-> "Good compliance with room for improvement."]
    ELSE IF percentage_score >= 40000
    THEN [compliance_level |-> "MODERATE",
          recommendation |-> "Moderate compliance - several areas need attention."]
    ELSE [compliance_level |-> "POOR",
          recommendation |-> "Poor compliance - significant improvements needed."]

\* the remediation sentence appended for a category, <<>> for an unknown key
ActionFor(category) ==
    IF category = "content_quality"
    THEN <<"Improve content depth and semantic richness with longer, well-structured articles">>
    ELSE IF category = "technical_performance"
    THEN <<"Optimize page speed, implement SSL, and ensure mobile-friendly design">>
    ELSE IF category = "semantic_structure"
    THEN <<"Add structured data markup and improve semantic HTML structure">>
    ELSE IF category = "ai_readiness"
    THEN <<"Create more conversational, question-answering content for AI engines">>
    ELSE IF category = "eat_factors"
    THEN <<"Add author information, credibility signals, and update content dates">>
    ELSE IF category = "mobile_ai_optimization"
    THEN <<"Improve mobile responsiveness and Core Web Vitals performance">>
    ELSE <<>>

MaintainActions ==
    <<"Continue monitoring and maintaining current high standards",
      "Focus on creating fresh, expert content regularly">>

\* (score / max_score) * 100 < 50
BelowHalf(data) == data.score * 100 < 50 * data.max_score

RECURSIVE CollectActions(_, _)
\* the for loop over self.detailed_results.items(), from entry i on
CollectActions(results, i) ==
    IF i > Len(results) THEN <<>>
    ELSE (IF BelowHalf(results[i].value) THEN ActionFor(results[i].key) ELSE <<>>)
         \o CollectActions(results, i + 1)

\* the action list returned whole
TopActions_uncut(actions) == actions

\* actions[:5]
TopActions(actions) == SubSeq(actions, 1, IF Len(actions) < 5 THEN Len(actions) ELSE 5)

generate_priority_actions(self) ==
    LET found   == CollectActions(self.detailed_results, 1)
        actions == IF found = <<>> THEN MaintainActions ELSE found
    IN  TopActions(actions)

\* the report dict, without its analysis_date time stamp; overall_score is
\* round(percentage_score, 1) in tenths of a percent
generate_compliance_report(self, u) ==
    LET percentage_score == PercentageScore(self.compliance_score)
        level == ComplianceLevel(percentage_score)
    IN  [url |-> u,
         overall_score |-> RoundHalfEven(percentage_score, 100),
         compliance_level |-> level.compliance_level,
         recommendation |-> level.recommendation,
         detailed_scores |-> self.detailed_results,
         priority_actions |-> generate_priority_actions(self)]

None == [is_none |-> TRUE]

\* analyze_website after crawl_website has returned pages: the object's
\* fields when the call ends, its return value, and what became of the mobile
\* scorer's fetch ("none" when the scorer was never reached)
analyze_website(self, u, pages, outcome) ==
    LET scored ==
            Then(Then(Then(Then(analyze_content_quality(self, pages),
                LAMBDA s1 : analyze_technical_performance(s1, u, pages)),
                LAMBDA s2 : analyze_semantic_structure(s2, pages)),
                LAMBDA s3 : analyze_ai_readiness(s3, pages)),
                LAMBDA s4 : analyze_eat_factors(s4, pages))
        Conclude(r5, r6) ==
            [self   |-> r6.self,
             report |-> IF r6.raised THEN None ELSE generate_compliance_report(r6.self, u),
             mobile_fetch |-> IF r5.raised THEN "none"
                              ELSE IF outcome = FetchError THEN "error" ELSE "ok"]
        Last(r5) ==
            CHOOSE out \in
                {Conclude(r5, r6) :
                    r6 \in {Then(r5, LAMBDA s5 : analyze_mobile_ai_optimization(s5, outcome))}}
                : TRUE
    IN  CHOOSE out \in {Last(r5) : r5 \in {scored}} : TRUE

-----------------------------------------------------------------------------
(* crawl_website                                                           *)

\* the while condition letting one page too many in
LoopCond_inclusive == to_visit # <<>> /\ Len(pages_data) <= max_pages

\* the while condition of the crawl loop
LoopCond == to_visit # <<>> /\ Len(pages_data) < max_pages

\* links[:5]
FirstLinks(hrefs) == SubSeq(hrefs, 1, IF Len(hrefs) < 5 THEN Len(hrefs) ELSE 5)

\* the for loop over links[:5] of the page fetched from cur: every non-empty
\* href is resolved against cur and appended to the queue, in order, if it is
\* internal and not in visited (seen)
Enqueue(queue, links, base_url, cur, seen) ==
    LET hrefs     == SelectSeq(links, LAMBDA href : href # <<>>)
        full_urls == [i \in 1..Len(hrefs) |-> urljoin(cur, hrefs[i])]
    IN  queue \o SelectSeq(full_urls,
                           LAMBDA full_url : /\ is_internal_link(base_url, full_url)
                                             /\ full_url \notin seen)

Init ==
    /\ pc = "idle"
    /\ requested = 0
    /\ url = HomeUrl
    /\ max_pages = 0
    /\ pages_data = <<>>
    /\ visited = {}
    /\ to_visit = <<>>
    /\ compliance_score = 0
    /\ detailed_results = <<>>
    /\ report = None
    /\ fetched = EmptyBag
    /\ last_fetch = "none"
    /\ mobile_fetch = "none"

\* analyze_website(u, n) is entered and crawl_website initialises its locals
Call(u, n) ==
    /\ pc = "idle"
    /\ url' = u
    /\ max_pages' = n
    /\ to_visit' = <<u>>
    /\ requested' = requested + n
    /\ pc' = "crawl"
    /\ pages_data' = <<>>
    /\ visited' = {}
    /\ fetched' = EmptyBag
    /\ last_fetch' = "none"
    /\ mobile_fetch' = "none"
    /\ UNCHANGED <<compliance_score, detailed_results, report>>

\* any call on the analyzer, within the budget
AnalyzeWebsite ==
    \E u \in StartUrls, n \in 0..(MaxBudget - requested) : Call(u, n)

\* a call on an analyzer that is still as __init__ left it
AnalyzeWebsiteFresh ==
    /\ requested = 0 /\ compliance_score = 0 /\ detailed_results = <<>>
    /\ \E u \in StartUrls, n \in 0..MaxPagesArg : Call(u, n)

\* the visited test made on the front of the queue without popping it
CrawlSkipVisited_nopop ==
    /\ pc = "crawl" /\ LoopCond
    /\ Head(to_visit) \in visited
    /\ last_fetch' = "skipped"
    /\ UNCHANGED <<pc, requested, url, max_pages, pages_data, visited, to_visit,
                   compliance_score, detailed_results, report, fetched, mobile_fetch>>

\* one loop iteration: the popped URL is already visited
CrawlSkipVisited ==
    /\ pc = "crawl" /\ LoopCond
    /\ Head(to_visit) \in visited
    /\ to_visit' = Tail(to_visit)
    /\ last_fetch' = "skipped"
    /\ UNCHANGED <<pc, requested, url, max_pages, pages_data, visited,
                   compliance_score, detailed_results, report, fetched, mobile_fetch>>

\* one loop iteration: the fetch answers 200
CrawlFetchOk ==
    /\ pc = "crawl" /\ LoopCond
    /\ LET cur == Head(to_visit) IN
       /\ cur \notin visited
       /\ Fetchable(cur)
       /\ \E response \in Responses :
            /\ response.status_code = 200
            /\ LET page_data == [url |-> cur, response |-> response,
                                 content |-> response.content,
                                 status_code |-> response.status_code]
                   soup  == BeautifulSoup(response.content)
                   pages == Append(pages_data, page_data)
                   seen  == visited \cup {cur}
               IN  /\ pages_data' = pages
                   /\ visited' = seen
                   /\ to_visit' = IF Len(pages) < max_pages
                                  THEN Enqueue(Tail(to_visit), FirstLinks(soup.hrefs),
                                               url, cur, seen)
                                  ELSE Tail(to_visit)
       /\ fetched' = fetched (+) SetToBag({cur})
    /\ last_fetch' = "ok"
    /\ UNCHANGED <<pc, requested, url, max_pages, compliance_score, detailed_results,
                   report, mobile_fetch>>

\* one loop iteration: the fetch answers with a status other than 200
CrawlFetchNon200 ==
    /\ pc = "crawl" /\ LoopCond
    /\ LET cur == Head(to_visit) IN
       /\ cur \notin visited
       /\ Fetchable(cur)
       /\ \E response \in Responses : response.status_code # 200
       /\ fetched' = fetched (+) SetToBag({cur})
    /\ to_visit' = Tail(to_visit)
    /\ last_fetch' = "non200"
    /\ UNCHANGED <<pc, requested, url, max_pages, pages_data, visited,
                   compliance_score, detailed_results, report, mobile_fetch>>

\* crawl_website without its try/except: the exception ends the crawl and
\* analyze_website returns None
CrawlFetchError_abort ==
    /\ pc = "crawl" /\ LoopCond
    /\ LET cur == Head(to_visit) IN
       /\ cur \notin visited
       /\ fetched' = fetched (+) SetToBag({cur})
    /\ to_visit' = Tail(to_visit)
    /\ last_fetch' = "error"
    /\ pc' = "idle"
    /\ report' = None
    /\ UNCHANGED <<requested, url, max_pages, pages_data, visited,
                   compliance_score, detailed_results, mobile_fetch>>

\* one loop iteration: session.get raises (timeout, connection error, bad scheme)
CrawlFetchError ==
    /\ pc = "crawl" /\ LoopCond
    /\ LET cur == Head(to_visit) IN
       /\ cur \notin visited
       /\ fetched' = fetched (+) SetToBag({cur})
    /\ to_visit' = Tail(to_visit)
    /\ last_fetch' = "error"
    /\ UNCHANGED <<pc, requested, url, max_pages, pages_data, visited,
                   compliance_score, detailed_results, report, mobile_fetch>>

\* the loop has ended: crawl_website returns, the scorers run and
\* analyze_website returns the report, or None when something raised
ScoreAndReport ==
    /\ pc = "crawl" /\ ~LoopCond
    /\ \E outcome \in Responses \cup {FetchError} :
          /\ (~Fetchable(url) => outcome = FetchError)
          /\ \E r \in {analyze_website(Self(compliance_score, detailed_results),
                                         url, pages_data, outcome)} :
                 /\ compliance_score' = r.self.compliance_score
                 /\ detailed_results' = r.self.detailed_results
                 /\ report' = r.report
                 /\ mobile_fetch' = r.mobile_fetch
    /\ pc' = "idle"
    /\ UNCHANGED <<requested, url, max_pages, pages_data, visited, to_visit, fetched,
                   last_fetch>>

\* one iteration of the crawl loop
Crawl ==
    \/ CrawlSkipVisited
    \/ CrawlFetchError
    \/ CrawlFetchNon200
    \/ CrawlFetchOk

Next ==
    \/ AnalyzeWebsite
    \/ AnalyzeWebsiteFresh
    \/ Crawl
    \/ ScoreAndReport

\* any sequence of calls on one analyzer
Spec == Init /\ [][Next]_vars

NextFresh ==
    \/ AnalyzeWebsiteFresh
    \/ Crawl
    \/ ScoreAndReport

\* calls on a fresh analyzer
FreshSpec == Init /\ [][NextFresh]_vars

\* the program is one sequential thread: a crawl loop that can take another
\* iteration takes it, every session.get returning or raising within its timeout
FairFreshSpec == FreshSpec /\ WF_vars(Crawl)

-----------------------------------------------------------------------------
(* Properties of the crawl.                                                *)

\* C1: for a page budget max_pages >= 1 the crawl result never holds more than
\* max_pages pages, in any state of the crawl loop and when it returns.
C1_ResultWithinBudget ==
    max_pages >= 1 => Len(pages_data) <= max_pages

\* the budget is what stops a crawl whose frontier still holds a URL to fetch
C1_Witness ==
    /\ pc = "crawl" /\ max_pages >= 2
    /\ Len(pages_data) = max_pages
    /\ \E i \in DOMAIN to_visit : to_visit[i] \notin visited /\ Fetchable(to_visit[i])

\* C2: within one crawl no URL is handed to session.get more than once,
\* whatever the fetches answer.
C2_FetchedAtMostOnce ==
    \A u \in BagToSet(fetched) : CopiesIn(u, fetched) <= 1

\* C6: every page of the result was fetched with status 200, and an iteration
\* whose fetch answers non-200 or raises adds no page, stays in the loop and
\* leaves the rest of the frontier to be processed.
C6_FailedFetchNotFatal ==
    /\ [](\A i \in DOMAIN pages_data :
             pages_data[i].status_code = 200 /\ pages_data[i].response.status_code = 200)
    /\ [][(fetched' # fetched /\ last_fetch' \in {"non200", "error"})
            => /\ pages_data' = pages_data
               /\ pc' = "crawl"
               /\ to_visit' = Tail(to_visit)]_vars

\* a page was crawled after an earlier fetch of the same crawl had failed
C6_Witness ==
    /\ last_fetch = "ok" /\ Len(pages_data) >= 2
    /\ \E u \in BagToSet(fetched) : u \notin visited

\* C9: the crawl loop is left only with an empty frontier or a full result,
\* and every crawl reaches one of the two.
C9_CrawlTerminates ==
    /\ [][(pc = "crawl" /\ pc' # "crawl")
            => (to_visit = <<>> \/ Len(pages_data) >= max_pages)]_vars
    /\ (pc = "crawl") ~> (to_visit = <<>> \/ Len(pages_data) >= max_pages)

\* the frontier ran dry below the budget on pages that link back to visited ones
C9_Witness ==
    /\ pc = "crawl" /\ to_visit = <<>>
    /\ Len(pages_data) >= 2 /\ Len(pages_data) < max_pages
    /\ \E i \in DOMAIN pages_data :
          \E j \in DOMAIN BeautifulSoup(pages_data[i].content).hrefs :
             urljoin(pages_data[i].url, BeautifulSoup(pages_data[i].content).hrefs[j])
                \in visited

\* the domain of u is that of the start URL, or empty
C10_SameDomain(u) ==
    urlparse(u).netloc = urlparse(url).netloc \/ urlparse(u).netloc = <<>>

\* the URLs an iteration appends to the frontier
C10_Appended == SubSeq(to_visit', Len(to_visit), Len(to_visit'))

\* C10: every URL of the frontier other than the start URL, and every page of
\* the result, has the start URL's domain or none; an iteration appends a URL
\* only if it fetched a page with status 200, the result is still below
\* max_pages, and the URL is one of the page's first 5 hrefs, resolved against
\* the page's URL, internal and not visited.
C10_OnlyInternalLinksEnqueued ==
    /\ [](/\ \A i \in DOMAIN to_visit : to_visit[i] = url \/ C10_SameDomain(to_visit[i])
          /\ \A i \in DOMAIN pages_data : C10_SameDomain(pages_data[i].url))
    /\ [][(pc = "crawl" /\ pc' = "crawl")
            => /\ SubSeq(to_visit', 1, Len(to_visit) - 1) = Tail(to_visit)
               /\ C10_Appended # <<>>
                    => /\ last_fetch' = "ok" /\ fetched' # fetched
                       /\ pages_data' # pages_data
                       /\ pages_data'[Len(pages_data')].status_code = 200
                       /\ Len(pages_data') < max_pages
                       /\ LET cur   == Head(to_visit)
                              hrefs == BeautifulSoup(pages_data'[Len(pages_data')].content).hrefs
                          IN  \A j \in DOMAIN C10_Appended :
                                /\ C10_SameDomain(C10_Appended[j])
                                /\ C10_Appended[j] \notin visited'
                                /\ \E i \in 1..5 :
                                      /\ i <= Len(hrefs)
                                      /\ C10_Appended[j] = urljoin(cur, hrefs[i])]_vars

\* the frontier holds a same-domain link and a link without domain
C10_Witness ==
    /\ pc = "crawl"
    /\ \E i \in DOMAIN to_visit : to_visit[i] # url /\ urlparse(to_visit[i]).netloc = <<>>
    /\ \E i \in DOMAIN to_visit :
          to_visit[i] # url /\ urlparse(to_visit[i]).netloc = urlparse(url).netloc

-----------------------------------------------------------------------------
(* Properties of the report.                                               *)

\* the value recorded for a category in an insertion-ordered dict
C_Entry(d, key) == (CHOOSE i \in DOMAIN d : d[i].key = key)

C_Categories ==
    <<"content_quality", "technical_performance", "semantic_structure",
      "ai_readiness", "eat_factors", "mobile_ai_optimization">>

C_HasAll(d) == \A k \in DOMAIN C_Categories : \E i \in DOMAIN d : d[i].key = C_Categories[k]

\* the sum of the six category scores of a report
C3_SumOfScores(d) ==
    SumSeq([k \in DOMAIN C_Categories |-> d[C_Entry(d, C_Categories[k])].value.score])

\* C3: in every report, overall_score is (the sum of the six category scores
\* of that report's detailed_scores) / 250 * 100 rounded to one decimal, and is
\* within [0, 100] (overall_score is in tenths of a percent).
C3_OverallScoreFromOwnScores ==
    report # None =>
        /\ C_HasAll(report.detailed_scores)
        /\ report.overall_score
             = RoundHalfEven(C3_SumOfScores(report.detailed_scores) * 1000, 250)
        /\ report.overall_score >= 0 /\ report.overall_score <= 1000

\* the tier the claim gives to a percentage, in tenths of a percent
C4_Tier(p) ==
    IF p >= 800 THEN "EXCELLENT"
    ELSE IF p >= 600 THEN "GOOD"
    ELSE IF p >= 400 THEN "MODERATE"
    ELSE "POOR"

\* percentages at and next to the tier boundaries, in tenths of a percent
C4_Boundaries == {0, 399, 400, 599, 600, 799, 800, 1000}

\* C4: the tier is the function of the percentage p with p >= 80 EXCELLENT,
\* 60 <= p < 80 GOOD, 40 <= p < 60 MODERATE, p < 40 POOR (80.0 EXCELLENT, 79.9
\* and 60.0 GOOD, 39.9 POOR), and the tier of every report is the tier of the
\* overall_score written in that report.
C4_TierMatchesScore ==
    /\ \A p \in C4_Boundaries : ComplianceLevel(p * 100).compliance_level = C4_Tier(p)
    /\ report # None => report.compliance_level = C4_Tier(report.overall_score)

\* a report whose percentage is exactly 80.0
C4_Witness ==
    /\ report # None /\ report.overall_score = 800
    /\ report.compliance_level = "EXCELLENT"

\* the categories of d scoring below half of their maximum, in the fixed order
C5_Qualifying(d) ==
    SelectSeq(C_Categories,
              LAMBDA c : 2 * d[C_Entry(d, c)].value.score < d[C_Entry(d, c)].value.max_score)

\* C5: priority_actions holds the remediation sentences of the categories with
\* score / max_score < 0.5, in the order content_quality, technical_performance,
\* semantic_structure, ai_readiness, eat_factors, mobile_ai_optimization, cut to
\* the first 5; it is the two 'maintain' sentences when no category qualifies;
\* so it is never empty and never longer than 5.
C5_PriorityActions ==
    report # None =>
        /\ C_HasAll(report.detailed_scores)
        /\ LET q == C5_Qualifying(report.detailed_scores)
               sentences == [k \in 1..Len(q) |-> ActionFor(q[k])[1]]
           IN  /\ Len(q) = 0 => report.priority_actions = MaintainActions
               /\ Len(q) \in 1..5 => report.priority_actions = sentences
               /\ Len(q) = 6 => report.priority_actions = SubSeq(sentences, 1, 5)
        /\ Len(report.priority_actions) >= 1 /\ Len(report.priority_actions) <= 5

\* all six categories qualify and the mobile sentence is the one dropped
C5_Witness ==
    /\ report # None
    /\ Len(C5_Qualifying(report.detailed_scores)) = 6
    /\ Len(report.priority_actions) = 5
    /\ \A i \in DOMAIN report.priority_actions :
          report.priority_actions[i] # ActionFor("mobile_ai_optimization")[1]

\* C7: a call whose crawl yields no page returns None, and the analyzer's
\* compliance_score and detailed_results are as they were before the call:
\* the two fields change only when a call with at least one page returns a
\* report.
C7_ZeroPagesFailsWholeRun ==
    /\ [][(pc = "crawl" /\ pc' = "idle" /\ pages_data = <<>>) => report' = None]_vars
    /\ [][(compliance_score' # compliance_score \/ detailed_results' # detailed_results)
            => (pc = "crawl" /\ pc' = "idle" /\ pages_data # <<>> /\ report' # None)]_vars

\* a call on an analyzer holding the results of an earlier call found the start
\* URL unreachable and returned None
C7_Witness ==
    /\ pc = "idle" /\ report = None /\ pages_data = <<>>
    /\ max_pages >= 1 /\ last_fetch \in {"non200", "error"}
    /\ detailed_results # <<>> /\ compliance_score > 0

\* the results the five page scorers record for pages on a fresh analyzer
C8_FiveResults(u, pages) ==
    analyze_website(Self(0, <<>>), u, pages, FetchError).self.detailed_results

\* C8: when the mobile scorer's own fetch fails, responsive_design and
\* core_web_vitals are 0, the category is recorded with score 0 of 15, and the
\* call still returns a report in which the other five categories hold what
\* their scorers record for the crawled pages.
C8_MobileFetchFailureIsolated ==
    (pc = "idle" /\ mobile_fetch = "error") =>
        /\ report # None
        /\ C_HasAll(report.detailed_scores)
        /\ LET d == report.detailed_scores
               m == d[C_Entry(d, "mobile_ai_optimization")].value
           IN  /\ m.details.responsive_design = 0 /\ m.details.core_web_vitals = 0
               /\ m.score = 0 /\ m.max_score = 15
               /\ \A k \in 1..5 :
                     \E f \in {C8_FiveResults(url, pages_data)} :
                         d[C_Entry(d, C_Categories[k])].value
                           = f[C_Entry(f, C_Categories[k])].value

\* the mobile fetch failed after a crawl whose pages earned points elsewhere
C8_Witness ==
    /\ pc = "idle" /\ mobile_fetch = "error" /\ report # None
    /\ pages_data # <<>> /\ report.overall_score >= 600

-----------------------------------------------------------------------------
(* Properties of the category scores.                                      *)

\* a call has returned a report made from the pages of pages_data
C_Reported == pc = "idle" /\ report # None /\ pages_data # <<>>

\* the words of a page list, summed
C11_TotalWords(pages) == SumSeq([i \in DOMAIN pages |-> Soup(pages[i]).words])

\* the content_depth points recorded in a dict of results
C11_Depth(d) == d[C_Entry(d, "content_quality")].value.details.content_depth

\* page lists of one and two pages to compare a crawl with
C11_Samples ==
    LET contents == {r.content : r \in {x \in Responses : x.status_code = 200}}
        Page(c)  == [url |-> HomeUrl, response |-> Response(200, c, 500),
                     content |-> c, status_code |-> 200]
    IN  {<<Page(c)>> : c \in contents}
          \cup {<<Page(c1), Page(c2)>> : c1 \in contents, c2 \in contents}

\* the content_depth points the scorer gives a page list
C11_SampleDepth(q) ==
    C11_Depth(analyze_content_quality(Self(0, <<>>), q).self.detailed_results)

\* content_depth does not decrease when the average word count grows: compared
\* with any sample, the crawl with the larger average has at least as many points
C11_Monotonic(total, n, depth) ==
    \A q \in C11_Samples :
        \E qw \in {C11_TotalWords(q)}, qd \in {C11_SampleDepth(q)} :
            /\ total * Len(q) <= qw * n => depth <= qd
            /\ total * Len(q) >= qw * n => depth >= qd

\* C11 (as stated): content_depth is monotonic non-decreasing in the average
\* word count per page, an average of 999 words gives 10 points and an average
\* of 1000 words gives 25 points.
C11_Band999Gives10 ==
    C_Reported =>
        \E total \in {C11_TotalWords(pages_data)}, n \in {Len(pages_data)},
           depth \in {C11_Depth(report.detailed_scores)} :
            /\ C11_Monotonic(total, n, depth)
            /\ total = 999 * n => depth = 10
            /\ total = 1000 * n => depth = 25

\* C11 (amended): content_depth is monotonic non-decreasing in the average word
\* count per page, an average of 999 words gives 20 points (the band from 500
\* up to 1000) and an average of 1000 words gives 25 points.
C11_ContentDepthBands ==
    C_Reported =>
        \E total \in {C11_TotalWords(pages_data)}, n \in {Len(pages_data)},
           depth \in {C11_Depth(report.detailed_scores)} :
            /\ C11_Monotonic(total, n, depth)
            /\ total = 999 * n => depth = 20
            /\ total = 1000 * n => depth = 25

\* a one-page crawl of a page of 999 words was scored
C11_Witness ==
    /\ C_Reported /\ Len(pages_data) = 1
    /\ C11_TotalWords(pages_data) = 999
    /\ C11_Depth(report.detailed_scores) = 20

\* the technical_performance result recorded in a dict of results
C12_Technical(d) == d[C_Entry(d, "technical_performance")].value

\* C12: in a one-page crawl of a URL that carries a query string or a fragment
\* the page is not counted as a clean URL, so clean_urls is its floor of 3
\* points; and when the URL is not https and the page has no viewport tag the
\* category scores below 50% of its 50 points.
C12_QueryUrlNotClean ==
    (/\ C_Reported /\ Len(pages_data) = 1
     /\ \E parsed \in {urlparse(pages_data[1].url)} :
           parsed.query # <<>> \/ parsed.fragment # <<>>)
    => \E t \in {C12_Technical(report.detailed_scores)} :
           /\ t.details.clean_urls = 3
           /\ (t.details.ssl_security = 0 /\ ~HasViewport(pages_data[1]))
                 => 2 * t.score < t.max_score

\* the max_score of the six categories, in the order of C_Categories
C13_MaxScores == <<80, 50, 35, 30, 20, 15>>

RECURSIVE C13_SumOver(_, _)
\* the sum of the values f takes on the keys S
C13_SumOver(f, S) ==
    IF S = {} THEN 0
    ELSE LET k == CHOOSE x \in S : TRUE
         IN  f[k] + C13_SumOver(f, S \ {k})

\* C13: in every report of a freshly constructed analyzer each of the six
\* category results has 0 <= score <= max_score, max_score being 80, 50, 35, 30,
\* 20, 15, and score is the sum of the category's details values; the six
\* scores add up to at most 230 and overall_score is at most 92.0.
C13_ScoresWithinMaxima ==
    report # None =>
        /\ C_HasAll(report.detailed_scores)
        /\ \A k \in DOMAIN C_Categories :
              \E v \in {report.detailed_scores[C_Entry(report.detailed_scores,
                                                       C_Categories[k])].value} :
                  /\ v.max_score = C13_MaxScores[k]
                  /\ 0 <= v.score /\ v.score <= v.max_score
                  /\ v.score = C13_SumOver(v.details, DOMAIN v.details)
        /\ C3_SumOfScores(report.detailed_scores) <= 230
        /\ report.overall_score <= 920

\* a fresh analyzer reported the most points the six scorers can give
C13_Witness ==
    /\ C_Reported
    /\ C3_SumOfScores(report.detailed_scores) = 210
    /\ report.overall_score = 840
    /\ \A k \in {2, 3, 4, 5, 6} :
          report.detailed_scores[C_Entry(report.detailed_scores, C_Categories[k])].value.score
            = C13_MaxScores[k]
====
